---- MODULE Spec2Model ----
(***************************************************************************)
(* Model of pych/extern.py: the Extern call descriptor, the FromExtern     *)
(* decorator (declaration binding) and the wrapped_f closure it returns    *)
(* (type check, lazy materialization, dispatch), run by several threads.   *)
(*                                                                         *)
(* Python values are modelled as follows.                                  *)
(*   - type objects and None are strings ("int", "list", "None"); the      *)
(*     type of the value None is "NoneType", which is not the object None. *)
(*   - doc strings and symbol names are strings, None is "None", the empty *)
(*     string is "".                                                       *)
(*   - paths and library names are sequences of one-character strings so   *)
(*     that basename/splitext are computed; None and "" (both falsy, both  *)
(*     stored verbatim) are the empty sequence.                            *)
(*   - a ctypes function handle is a number in Handles, None is NoHandle.  *)
(***************************************************************************)
EXTENDS Integers, Sequences, FiniteSets, TLC

\* ---------------------------------------------------------------- bounds
MaxThreads == 2
MaxBinds   == 2
MaxCalls   == 2

Threads == 1..MaxThreads

\* Handle objects are numbered in the order the runtime first returns them;
\* every materialize request returns at most one new object.
Handles == 1..MaxCalls

\* ---------------------------------------------------------------- values
None     == "None"
NoHandle == 0
NoPath   == << >>

Truthy(s) == s # None /\ s # ""

\* typemap (extern.py:9-17): host type tag -> ctypes marshaling type.
TypeMapKeys == {"None", "bool", "int", "long", "float", "str", "unicode"}

typemap ==
    [k \in TypeMapKeys |->
        CASE k = "None"    -> "None"
          [] k = "bool"    -> "c_bool"
          [] k = "int"     -> "c_int"
          [] k = "long"    -> "c_long"
          [] k = "float"   -> "c_double"
          [] k = "str"     -> "c_char_p"
          [] k = "unicode" -> "c_wchar_p"]

\* ------------------------------------------------------------ descriptor
\* Extern.__init__ (extern.py:24-40)
Extern(pfunc, pname, doc, atypes, anames, rtype, efunc, ename, elib, sfile, slang) ==
    [pfunc |-> pfunc, pname |-> pname, doc |-> doc,
     atypes |-> atypes, anames |-> anames, rtype |-> rtype,
     efunc |-> efunc, ename |-> ename, elib |-> elib,
     sfile |-> sfile, slang |-> slang]

\* FromExtern.__init__ (extern.py:51-68)
FromExtern_init(ename, elib, sfile, slang) ==
    Extern(None, None, None, << >>, << >>, None, NoHandle, ename, elib, sfile, slang)

\* FromC.__init__ (extern.py:170-179)
FromC_init(ename, elib, sfile) == FromExtern_init(ename, elib, sfile, "C")

\* FromChapel.__init__ (extern.py:181-190)
FromChapel_init(ename, elib, sfile) == FromExtern_init(ename, elib, sfile, "Chapel")

\* ------------------------------------------------------------ os.path
RECURSIVE rfind(_, _, _)
\* index of the last occurrence of c in p[1..n], 0 when there is none
rfind(p, c, n) ==
    IF n = 0 THEN 0
    ELSE IF p[n] = c THEN n
    ELSE rfind(p, c, n - 1)

\* os.path.basename: what follows the last "/"
basename(p) == SubSeq(p, rfind(p, "/", Len(p)) + 1, Len(p))

\* os.path.splitext(p)[0]: p up to its last dot, when that dot comes after
\* the last "/" and is preceded there by a character that is not a dot
splitext_root(p) ==
    LET sepIndex == rfind(p, "/", Len(p))
        dotIndex == rfind(p, ".", Len(p))
    IN  IF /\ dotIndex > sepIndex
           /\ \E i \in (sepIndex + 1)..(dotIndex - 1) : p[i] # "."
        THEN SubSeq(p, 1, dotIndex - 1)
        ELSE p

\* "lib%s.so" % os.path.splitext(os.path.basename(sfile))[0]  (extern.py:129-131)
libname(sfile) == <<"l", "i", "b">> \o splitext_root(basename(sfile)) \o <<".", "s", "o">>

InlineLib == <<"i", "n", "l", "i", "n", "e", ".", "s", "o">>

\* ------------------------------------------------------------ inputs
\* Host functions handed to the decorator: name, doc string, formal
\* parameter names, default values (read as argument types), and the value
\* the body returns when called without arguments (read as return type).
HostFunc(name, doc, args, defaults, ret) ==
    [name |-> name, doc |-> doc, args |-> args, defaults |-> defaults, ret |-> ret]

\*   def add(a=int, b=int): return int
\*   def scale(x=None): """src"""; return None
\*   def tick(): ""; return list
\*   def partial(a, b=int): return int
\*   def badarg(a=int, b=list): return int
HostFuncs ==
    { HostFunc("add",     None,  <<"a", "b">>, <<"int", "int">>, "int"),
      HostFunc("scale",   "src", <<"x">>,      <<"None">>,       "None"),
      HostFunc("tick",    "",    << >>,        << >>,            "list"),
      HostFunc("partial", None,  <<"a", "b">>, <<"int">>,        "int"),
      HostFunc("badarg",  None,  <<"a", "b">>, <<"int", "list">>, "int") }

\* Runtime types of the actual arguments of a call: [type(arg) for arg in args]
CallTypes ==
    { << >>, <<"int">>, <<"NoneType">>,
      <<"int", "int">>, <<"int", "float">>, <<"int", "list">> }

\* Decorator instances, by their constructor arguments: an explicit symbol
\* name or none, with and without a source file, each with and without an
\* explicit library name.
SymName == "sym"
MyLib   == <<"m", ".", "s", "o">>
SrcFile == <<"d", "/", "a", ".", "c">>

Binders ==
    { FromExtern_init(None, NoPath, NoPath, None),
      FromExtern_init(SymName, MyLib, NoPath, None),
      FromC_init(None, NoPath, SrcFile),
      FromC_init(SymName, NoPath, SrcFile),
      FromChapel_init(SymName, MyLib, SrcFile),
      FromChapel_init(None, MyLib, NoPath) }

\* ------------------------------------------------------------ state
VARIABLES
    extern,     \* self._extern, the one descriptor of the FromExtern instance
    nbind,      \* applications of the decorator so far
    bindErr,    \* outcome of the last application: "none", "ok" or the exception
    nwrapped,   \* wrapped_f closures returned so far
    hints,      \* calls of pych.runtime.instance.hint
    matCount,   \* calls of pych.runtime.instance.materialize
    matFail,    \* ... of which returned None
    nhandles,   \* handle objects the runtime has returned so far
    hcfg,       \* per handle: the argtypes / restype attributes set on it
    ncalls,     \* invocations of wrapped_f started so far
    pc,         \* per thread: the line of wrapped_f it is about to run
    efunc,      \* per thread: the local variable efunc
    matched,    \* whether the actuals of the call started last equalled atypes
    typeOK,     \* per thread: whether its actuals equalled atypes at its check
    how,        \* per thread: "none", or how it came by a handle: "cached"
                \* (found in the slot), "returned" (by materialize), "stored"
    res         \* the invocation that returned last: outcome r and its how

vars == <<extern, nbind, bindErr, nwrapped, hints, matCount, matFail, nhandles, hcfg,
          ncalls, pc, efunc, matched, typeOK, how, res>>

bindVars   == <<extern, nbind, bindErr, nwrapped, hints>>
threadVars == <<pc, efunc, matched, typeOK, how, res>>

FreshCfg == [aset |-> FALSE, argtypes |-> << >>, rset |-> FALSE, restype |-> "c_int"]

Init ==
    /\ extern \in Binders
    /\ nbind = 0
    /\ bindErr = "none"
    /\ nwrapped = 0
    /\ hints = 0
    /\ matCount = 0
    /\ matFail = 0
    /\ nhandles = 0
    /\ hcfg = [h \in Handles |-> FreshCfg]
    /\ ncalls = 0
    /\ pc = [t \in Threads |-> "idle"]
    /\ efunc = [t \in Threads |-> NoHandle]
    /\ matched = FALSE
    /\ typeOK = [t \in Threads |-> FALSE]
    /\ how = [t \in Threads |-> "none"]
    /\ res = [r |-> "none", how |-> "none"]

\* ------------------------------------------------------------ binding
\* extern.py:100-110: record the function and infer the declaration.  The
\* argument types are replaced only when the function has default values.
infer(e, f) ==
    [e EXCEPT !.pfunc  = f.name,
              !.pname  = f.name,
              !.doc    = f.doc,
              !.anames = f.args,
              !.atypes = IF f.defaults # << >> THEN f.defaults ELSE @]

\* extern.py:111, self._extern.pfunc(): a call without arguments is accepted
\* by Python only when every formal parameter has a default value; otherwise
\* the call itself raises TypeError.
pfunc_callable(f) == Len(f.defaults) = Len(f.args)

\* faulty variant: the length comparison of line 74 is missing
validate_decl_nolen(e) ==
    \A i \in 1..Len(e.anames) : i <= Len(e.atypes) => e.atypes[i] \in TypeMapKeys

\* faulty variant: only the first argument type is looked up
validate_decl_first(e) ==
    /\ Len(e.atypes) = Len(e.anames)
    /\ Len(e.anames) > 0 => e.atypes[1] \in TypeMapKeys

\* FromExtern._validate_decl (extern.py:71-85): TRUE when nothing is raised.
validate_decl(e) ==
    /\ Len(e.atypes) = Len(e.anames)
    /\ \A i \in 1..Len(e.anames) : e.atypes[i] \in TypeMapKeys

\* extern.py:117-131: symbol and library naming.
naming(e) ==
    LET e1 == IF Truthy(e.doc)
              THEN [e EXCEPT !.ename = e.pname, !.elib = InlineLib]
              ELSE e
        e2 == IF e1.sfile # NoPath
              THEN [e1 EXCEPT !.ename = IF ~Truthy(@) THEN e1.pname ELSE @,
                              !.elib  = libname(e1.sfile)]
              ELSE e1
    IN  e2

\* FromExtern.__call__ (extern.py:97-140, 168): one application of the
\* decorator to the host function f.  The descriptor is updated in place, so
\* what was assigned before an exception stays assigned.
FromExtern_call(f) ==
    /\ nbind < MaxBinds
    /\ nbind' = nbind + 1
    /\ LET e1 == infer(extern, f)
           e2 == [e1 EXCEPT !.rtype = f.ret]
       IN  IF ~pfunc_callable(f)
           THEN /\ extern' = e1
                /\ bindErr' = "TypeError"
                /\ UNCHANGED <<hints, nwrapped>>
           ELSE IF ~validate_decl(e2)
           THEN /\ extern' = e2
                /\ bindErr' = "TypeError"
                /\ UNCHANGED <<hints, nwrapped>>
           ELSE /\ extern' = naming(e2)
                /\ bindErr' = "ok"
                /\ hints' = hints + 1
                /\ nwrapped' = nwrapped + 1
    /\ UNCHANGED <<matCount, matFail, nhandles, hcfg, ncalls>>
    /\ UNCHANGED threadVars

\* ------------------------------------------------------------ wrapped_f
\* An invocation returns or raises: its frame (the local efunc) is gone and
\* its outcome is what the caller sees.  The actual arguments are read by
\* the type check alone, so only their types at the call are modelled.
Return(t, r) ==
    /\ pc' = [pc EXCEPT ![t] = "idle"]
    /\ res' = [r |-> r, how |-> how[t]]
    /\ efunc' = [efunc EXCEPT ![t] = NoHandle]
    /\ typeOK' = [typeOK EXCEPT ![t] = FALSE]
    /\ how' = [how EXCEPT ![t] = "none"]

Goto(t, l) ==
    /\ pc' = [pc EXCEPT ![t] = l]
    /\ UNCHANGED res

\* faulty variant: only the number of arguments is compared
type_check_len(a, atypes) == Len(a) = Len(atypes)

\* FromExtern._type_check (extern.py:87-95): TRUE when nothing is raised.
type_check(a, atypes) == a = atypes

\* extern.py:142-146: a thread calls a returned wrapped_f; the type check.
\* Threads run the same code and an idle thread holds no state, so the call
\* is run by the first idle thread.
wrapped_f(t, a) ==
    /\ pc[t] = "idle"
    /\ \A u \in Threads : u < t => pc[u] # "idle"
    /\ nwrapped > 0
    /\ ncalls < MaxCalls
    /\ ncalls' = ncalls + 1
    /\ matched' = (a = extern.atypes)
    /\ IF type_check(a, extern.atypes)
       THEN /\ pc' = [pc EXCEPT ![t] = "L150"]
            /\ typeOK' = [typeOK EXCEPT ![t] = (a = extern.atypes)]
            /\ UNCHANGED <<efunc, how, res>>
       ELSE Return(t, "TypeError")
    /\ UNCHANGED <<matCount, matFail, nhandles, hcfg>>
    /\ UNCHANGED bindVars

\* faulty variants: the cached handle is ignored / assumed
handle_absent_always(e) == TRUE

handle_absent_never(e) == FALSE

\* extern.py:150: "not self._extern.efunc"
handle_absent(e) == e.efunc = NoHandle

\* extern.py:150: test the handle slot of the descriptor.
L150(t) ==
    /\ pc[t] = "L150"
    /\ how' = [how EXCEPT ![t] = IF extern.efunc # NoHandle THEN "cached" ELSE "none"]
    /\ IF handle_absent(extern)
       THEN Goto(t, "L151")
       ELSE Goto(t, "L166")
    /\ UNCHANGED <<matCount, matFail, nhandles, hcfg, ncalls, efunc, matched, typeOK>>
    /\ UNCHANGED bindVars

\* pych.runtime.instance.materialize(extern): None on failure, else a handle
\* object: one it returned before or a new one.
materialize_results(n) == {NoHandle} \cup (1..(n + 1))

\* faulty variant: the result of materialize is not tested
materialize_failed_never(h) == FALSE

\* extern.py:153: "not efunc"
materialize_failed(h) == h = NoHandle

\* extern.py:151-154: request materialization from the runtime and raise
\* when it returned no handle.
L151(t) ==
    /\ pc[t] = "L151"
    /\ matCount' = matCount + 1
    /\ \E h \in materialize_results(nhandles) :
          /\ matFail' = IF h = NoHandle THEN matFail + 1 ELSE matFail
          /\ nhandles' = IF h > nhandles THEN h ELSE nhandles
          /\ IF materialize_failed(h)
             THEN Return(t, "Exception")
             ELSE /\ efunc' = [efunc EXCEPT ![t] = h]
                  /\ how' = [how EXCEPT ![t] = IF h # NoHandle THEN "returned" ELSE @]
                  /\ Goto(t, "L157")
                  /\ UNCHANGED typeOK
    /\ UNCHANGED <<hcfg, ncalls, matched>>
    /\ UNCHANGED bindVars

\* extern.py:157: efunc.argtypes = [typemap[atype] for atype in atypes];
\* a type outside the typemap raises KeyError before anything is assigned.
L157(t) ==
    /\ pc[t] = "L157"
    /\ IF \A i \in 1..Len(extern.atypes) : extern.atypes[i] \in TypeMapKeys
       THEN /\ hcfg' = [hcfg EXCEPT ![efunc[t]].aset = TRUE,
                                    ![efunc[t]].argtypes =
                                        [i \in 1..Len(extern.atypes) |-> typemap[extern.atypes[i]]]]
            /\ Goto(t, "L158")
            /\ UNCHANGED <<efunc, typeOK, how>>
       ELSE /\ hcfg' = hcfg
            /\ Return(t, "KeyError")
    /\ UNCHANGED <<matCount, matFail, nhandles, ncalls, matched>>
    /\ UNCHANGED bindVars

\* faulty variant: the return type is not registered on the handle
L158_skip(t) ==
    /\ pc[t] = "L158"
    /\ Goto(t, "L162")
    /\ UNCHANGED <<matCount, matFail, nhandles, hcfg, ncalls, efunc, matched, typeOK, how>>
    /\ UNCHANGED bindVars

\* extern.py:158: efunc.restype = typemap[self._extern.rtype]
L158(t) ==
    /\ pc[t] = "L158"
    /\ IF extern.rtype \in TypeMapKeys
       THEN /\ hcfg' = [hcfg EXCEPT ![efunc[t]].rset = TRUE,
                                    ![efunc[t]].restype = typemap[extern.rtype]]
            /\ Goto(t, "L162")
            /\ UNCHANGED <<efunc, typeOK, how>>
       ELSE /\ hcfg' = hcfg
            /\ Return(t, "KeyError")
    /\ UNCHANGED <<matCount, matFail, nhandles, ncalls, matched>>
    /\ UNCHANGED bindVars

\* faulty variant: the handle is assigned to pfunc instead of efunc
L162_pfunc(t) ==
    /\ pc[t] = "L162"
    /\ extern' = [extern EXCEPT !.pfunc = "efunc"]
    /\ how' = [how EXCEPT ![t] = "stored"]
    /\ Goto(t, "L166")
    /\ UNCHANGED <<nbind, bindErr, nwrapped, hints>>
    /\ UNCHANGED <<matCount, matFail, nhandles, hcfg, ncalls, efunc, matched, typeOK>>

\* faulty variant: the handle is used but never registered on the descriptor
L162_nostore(t) ==
    /\ pc[t] = "L162"
    /\ Goto(t, "L166")
    /\ UNCHANGED <<matCount, matFail, nhandles, hcfg, ncalls, efunc, matched, typeOK, how>>
    /\ UNCHANGED bindVars

\* extern.py:162: self._extern.efunc = efunc
L162(t) ==
    /\ pc[t] = "L162"
    /\ extern' = [extern EXCEPT !.efunc = efunc[t]]
    /\ how' = [how EXCEPT ![t] = "stored"]
    /\ Goto(t, "L166")
    /\ UNCHANGED <<nbind, bindErr, nwrapped, hints>>
    /\ UNCHANGED <<matCount, matFail, nhandles, hcfg, ncalls, efunc, matched, typeOK>>

\* extern.py:166: return self._extern.efunc(*args); calling None raises
\* TypeError ('NoneType' object is not callable).
L166(t) ==
    /\ pc[t] = "L166"
    /\ IF extern.efunc = NoHandle
       THEN Return(t, "NotCallable")
       ELSE Return(t, "ok")
    /\ UNCHANGED <<matCount, matFail, nhandles, hcfg, ncalls, matched>>
    /\ UNCHANGED bindVars

\* ------------------------------------------------------------ specifications
\* Threads of one process interleave at every line of wrapped_f.
Next ==
    \/ \E f \in HostFuncs : FromExtern_call(f)
    \/ \E t \in Threads, a \in CallTypes : wrapped_f(t, a)
    \/ \E t \in Threads : L150(t)
    \/ \E t \in Threads : L151(t)
    \/ \E t \in Threads : L157(t)
    \/ \E t \in Threads : L158(t)
    \/ \E t \in Threads : L162(t)
    \/ \E t \in Threads : L166(t)

Spec == Init /\ [][Next]_vars

\* Sequential execution: a call or a binding starts only when no invocation
\* of wrapped_f is in progress.
AllIdle == \A t \in Threads : pc[t] = "idle"

SeqNext ==
    \/ \E f \in HostFuncs : AllIdle /\ FromExtern_call(f)
    \/ \E t \in Threads, a \in CallTypes : AllIdle /\ wrapped_f(t, a)
    \/ \E t \in Threads : L150(t)
    \/ \E t \in Threads : L151(t)
    \/ \E t \in Threads : L157(t)
    \/ \E t \in Threads : L158(t)
    \/ \E t \in Threads : L162(t)
    \/ \E t \in Threads : L166(t)

SeqSpec == Init /\ [][SeqNext]_vars

\* ------------------------------------------------------------ properties
Busy(t) == pc[t] # "idle"

DeclValid(e) ==
    /\ e.rtype \in TypeMapKeys
    /\ \A i \in 1..Len(e.atypes) : e.atypes[i] \in TypeMapKeys

\* C1: for one bound descriptor (the decorator applied once, to a function
\* whose declared types are all in the typemap), concurrent type-correct
\* calls whose materialize requests all succeed issue at most one
\* materialize request.
C1_OneMaterialize ==
    (nbind = 1 /\ nwrapped = 1 /\ DeclValid(extern) /\ matFail = 0) => matCount <= 1

\* C2: the handle slot is write-once: once it holds a handle, no step
\* replaces that handle or resets the slot.
C2_WriteOnce ==
    [][extern.efunc # NoHandle => extern'.efunc = extern.efunc]_vars

\* C3: within one invocation the type check precedes materialization, which
\* precedes dispatch: a thread inside wrapped_f has passed the type check, a
\* thread about to request materialization holds no handle yet, and a thread
\* at the dispatch either found a cached handle or stored the one that
\* materialize returned to it.
C3_Order ==
    \A t \in Threads :
        /\ Busy(t) => typeOK[t]
        /\ pc[t] = "L151" => how[t] = "none"
        /\ pc[t] \in {"L157", "L158", "L162"} => how[t] = "returned"
        /\ pc[t] = "L166" => how[t] \in {"cached", "stored"}

C3_Witness ==
    \E t \in Threads : pc[t] = "L166" /\ how[t] = "stored" /\ typeOK[t]

\* C4: a call whose actual types differ from the declared argument types
\* raises TypeError in that very step: the invocation is over, no
\* materialize request was issued, nothing was dispatched and neither the
\* descriptor nor any handle was touched, with or without a cached handle.
C4_TypeMismatch ==
    [][(ncalls' = ncalls + 1 /\ ~matched')
          => /\ res' = [r |-> "TypeError", how |-> "none"]
             /\ pc' = pc
             /\ matCount' = matCount
             /\ extern' = extern
             /\ hcfg' = hcfg]_vars

C4_Witness ==
    /\ ~matched
    /\ res.r = "TypeError"
    /\ ncalls = 2
    /\ matCount = 1
    /\ extern.efunc # NoHandle
    /\ \A t \in Threads : ~Busy(t)

\* C5: in a sequential execution, once the slot holds a handle no later step
\* issues a materialize request.
C5_NoRematerialize ==
    [][extern.efunc # NoHandle => matCount' = matCount]_vars

C5_Witness ==
    /\ extern.efunc # NoHandle
    /\ res = [r |-> "ok", how |-> "cached"]
    /\ matCount = 1

\* C6: the handle is absent right after every binding, binding issues no
\* materialize request, and the slot is filled only by the store of an
\* invocation that passed the type check and holds a handle that
\* materialize returned.
C6_Lazy ==
    [][/\ nbind' = nbind + 1 => (extern'.efunc = NoHandle /\ matCount' = matCount)
       /\ (extern.efunc = NoHandle /\ extern'.efunc # NoHandle)
             => \E t \in Threads : /\ pc[t] = "L162"
                                   /\ typeOK[t]
                                   /\ how[t] = "returned"
                                   /\ extern'.efunc = efunc[t]]_vars

\* C7: when materialize returns no handle the invocation raises the
\* materialization error in that step: nothing is dispatched and the
\* descriptor, its handle slot included, is left as it was.
C7_MaterializeFails ==
    [][matFail' # matFail
          => /\ res' = [r |-> "Exception", how |-> "none"]
             /\ \E t \in Threads : pc[t] = "L151" /\ typeOK[t] /\ pc'[t] = "idle"
             /\ matCount' = matCount + 1
             /\ extern' = extern
             /\ hcfg' = hcfg]_vars

C7_Witness ==
    /\ res.r = "Exception"
    /\ matFail > 0
    /\ extern.efunc = NoHandle

\* C8: in a sequential execution of a descriptor bound once, a call issues
\* at most one materialize request, and after a materialization failure the
\* descriptor stays usable: a type-correct call that leaves the slot empty
\* did request materialization and was refused, and one to which materialize
\* returned a handle dispatched normally.
C8_RetryDispatches ==
    nbind = 1 =>
        /\ matCount <= ncalls
        /\ (matFail > 0 /\ AllIdle /\ matched /\ extern.efunc = NoHandle)
              => res = [r |-> "Exception", how |-> "none"]
        /\ (matFail > 0 /\ res.how \in {"returned", "stored"}) => res.r = "ok"

\* C9: an application of the decorator that infers argument types and
\* argument names of different lengths raises TypeError, issues no hint and
\* no materialize request and returns no wrapped_f.
C9_LengthMismatch ==
    [][(nbind' = nbind + 1 /\ Len(extern'.atypes) # Len(extern'.anames))
          => /\ bindErr' = "TypeError"
             /\ hints' = hints
             /\ matCount' = matCount
             /\ nwrapped' = nwrapped]_vars

C9_Witness ==
    /\ bindErr = "TypeError"
    /\ extern.pname = "tick"
    /\ Len(extern.atypes) # Len(extern.anames)

\* C10: an application of the decorator that infers, at any position, an
\* argument type that is no key of the typemap raises TypeError and issues
\* no hint.
C10_UnsupportedType ==
    [][(nbind' = nbind + 1
        /\ \E i \in 1..Len(extern'.atypes) : extern'.atypes[i] \notin TypeMapKeys)
          => /\ bindErr' = "TypeError"
             /\ hints' = hints
             /\ nwrapped' = nwrapped]_vars

C10_Witness ==
    /\ bindErr = "TypeError"
    /\ extern.pname = "badarg"
    /\ Len(extern.atypes) = Len(extern.anames)
    /\ extern.atypes[1] \in TypeMapKeys
    /\ extern.atypes[2] \notin TypeMapKeys

\* C11: in every descriptor that binding accepted, each argument type is a
\* key of the typemap other than None (the "no value" tag).
C11_NoVoidArgument ==
    bindErr = "ok" =>
        \A i \in 1..Len(extern.atypes) :
            extern.atypes[i] \in TypeMapKeys /\ extern.atypes[i] # None

\* C12: in every descriptor that binding accepted the return type is a key
\* of the typemap, so the lookup typemap[rtype] of a first call on a
\* descriptor bound once never raises KeyError.
C12_ReturnTypeMapped ==
    /\ bindErr = "ok" => extern.rtype \in TypeMapKeys
    /\ nbind = 1 => res.r # "KeyError"

\* C13: a symbol name given to the constructor survives the application of
\* the decorator, whatever the doc string and the source file are.
C13_ExplicitNameKept ==
    [][(nbind = 0 /\ nbind' = 1 /\ Truthy(extern.ename))
          => extern'.ename = extern.ename]_vars

\* C14: after an accepted application the library name is the inline
\* library when the function has a doc string, and lib<base>.so of the
\* source file only when it has none.
C14_LibraryRule ==
    [][(nbind' = nbind + 1 /\ bindErr' = "ok")
          => /\ Truthy(extern'.doc) => extern'.elib = InlineLib
             /\ (~Truthy(extern'.doc) /\ extern'.sfile # NoPath)
                   => extern'.elib = libname(extern'.sfile)]_vars

\* C15: each accepted application issues exactly one hint, for a validated
\* and named descriptor, and a refused one none; the hint comes before any
\* call of wrapped_f and any materialize request on that descriptor.
C15_HintFirst ==
    [][nbind' = nbind + 1
          => /\ bindErr' = "ok" => /\ hints' = hints + 1
                                   /\ validate_decl(extern')
                                   /\ naming(extern') = extern'
                                   /\ ncalls = 0
                                   /\ matCount = 0
             /\ bindErr' # "ok" => hints' = hints]_vars

\* C16: the handle in the slot of the descriptor has had both its argument
\* types and its return type registered, in every interleaving; so has the
\* handle a thread is about to store or to dispatch through.
C16_CachedConfigured ==
    /\ extern.efunc # NoHandle =>
          hcfg[extern.efunc].aset /\ hcfg[extern.efunc].rset
    /\ \A t \in Threads :
          pc[t] = "L162" => hcfg[efunc[t]].aset /\ hcfg[efunc[t]].rset

C16_Witness ==
    /\ extern.efunc # NoHandle
    /\ \E t \in Threads : pc[t] = "L162" /\ efunc[t] # extern.efunc

\* C17: a step of wrapped_f (any step that is no application of the
\* decorator) changes no field of the descriptor other than efunc.
C17_CallFrame ==
    [][nbind' = nbind
          => [extern' EXCEPT !.efunc = NoHandle] = [extern EXCEPT !.efunc = NoHandle]]_vars

C17_Witness ==
    /\ res = [r |-> "ok", how |-> "stored"]
    /\ extern.efunc # NoHandle
    /\ matFail > 0
    /\ ncalls = MaxCalls

\* C18: an application of the decorator made after a wrapped_f was returned
\* leaves what that wrapped_f checks against and dispatches through as it
\* was: argument types, return type, symbol name, library name and handle.
C18_DescriptorKept ==
    [][(nbind' = nbind + 1 /\ nwrapped > 0)
          => /\ extern'.atypes = extern.atypes
             /\ extern'.rtype = extern.rtype
             /\ extern'.ename = extern.ename
             /\ extern'.elib = extern.elib
             /\ extern'.efunc = extern.efunc]_vars

\* C19: a thread at the dispatch reads a slot that holds a handle which a
\* materialize request returned; no invocation ends by calling None.
C19_DispatchHasHandle ==
    /\ \A t \in Threads : pc[t] = "L166" => extern.efunc \in 1..nhandles
    /\ res.r # "NotCallable"

C19_Witness ==
    \A t \in Threads : pc[t] = "L166" /\ how[t] = "stored"

====
